---- MODULE Spec2Model ----
(***************************************************************************)
(* A model of gaol's profile validation (src/profile.rs) and of its POSIX  *)
(* child process management (src/platform/unix/process.rs).                *)
(*                                                                         *)
(* Four state machines share the module, each with its own specification: *)
(*   SpecProfile     Profile::new and Profile::allowed_operations          *)
(*   SpecSpawn       spawn, with the descriptor tables of parent and child *)
(*   SpecWait        Process::wait over the children of one parent         *)
(*   SpecExitStatus  ExitStatus::success over ExitStatus values            *)
(* A specification leaves the variables of the other machines untouched.   *)
(***************************************************************************)
EXTENDS Integers, Sequences, FiniteSets, TLC

VARIABLES
    \* ---- profile.rs ----
    support,        \* the platform's OperationSupport::support, Operation -> level
    arg,            \* the Vec<Operation> handed to Profile::new
    profile,        \* the Result<Profile,()> of Profile::new ("None" before the call)
    slice,          \* what the last allowed_operations() call returned
    calls,          \* number of allowed_operations() calls made
    \* ---- process.rs: spawn ----
    command,        \* the Command handed to spawn (its env; path and args are opaque)
    pfd,            \* the parent's descriptor table
    pc,             \* the parent's position inside spawn
    fd1, fd2, fd3,  \* spawn's locals in the parent
    before,         \* the parent's descriptor table when the current spawn was called
    errno,          \* the parent's errno
    forkret,        \* what fork returned in the parent in the current spawn
    nspawn,         \* number of spawn calls started
    ret,            \* the io::Result<Process> of each spawn call
    child,          \* per spawn call: the child process created by its fork
    \* ---- process.rs: wait ----
    kids,           \* per pid: the kernel's record of the parent's child
    waiter,         \* per thread: the frame of its Process::wait call
    nwait,          \* number of wait calls started
    \* ---- process.rs: ExitStatus ----
    status,         \* an ExitStatus value
    succ            \* the result of status.success(): <<>> before the call, <<b>> after

profileVars == <<support, arg, profile, slice, calls>>
spawnVars == <<command, pfd, pc, fd1, fd2, fd3, before, errno, forkret, nspawn, ret, child>>
waitVars == <<kids, waiter, nwait>>
exitVars == <<status, succ>>
vars == <<profileVars, spawnVars, waitVars, exitVars>>

-----------------------------------------------------------------------------
(* Bounds *)
MaxOps == 3         \* longest operation list handed to Profile::new
MaxCalls == 2       \* allowed_operations() calls per profile
NumFds == 12        \* size of a process's descriptor table (RLIMIT_NOFILE)
MaxSpawns == 2      \* spawn calls made by the parent
NumKids == 2        \* children of the parent in the wait machine
NumThreads == 2     \* threads of the parent that call wait
MaxWaits == 2       \* wait calls made in all
MaxStatus == 15     \* ExitStatus payloads range over -MaxStatus..MaxStatus

-----------------------------------------------------------------------------
(***************************************************************************)
(* profile.rs                                                              *)
(***************************************************************************)

\* enum Operation: one representative per variant family (payloads are opaque
\* to Profile::new, which only asks each operation for its support level).
Operation == {"FileReadAll", "FileReadMetadata", "NetworkOutbound", "SystemInfoRead"}

\* enum OperationSupportLevel
OperationSupportLevel == {"NeverAllowed", "CanBeAllowed", "CannotBeAllowedPrecisely", "AlwaysAllowed"}

\* The closure of Profile::new: the match on operation.support().
SupportOkBuggy(level) ==
    CASE level = "NeverAllowed" -> TRUE
      [] level = "CanBeAllowed" -> TRUE
      [] level = "CannotBeAllowedPrecisely" -> FALSE
      [] level = "AlwaysAllowed" -> TRUE

SupportOk(level) ==
    CASE level = "NeverAllowed" -> TRUE
      [] level = "CanBeAllowed" -> TRUE
      [] level = "CannotBeAllowedPrecisely" -> FALSE
      [] level = "AlwaysAllowed" -> FALSE

\* Iterator::all over the vector: left to right, stopping at the first false.
RECURSIVE IterAll(_, _, _)
IterAll(sup, ops, i) ==
    IF i > Len(ops) THEN TRUE
    ELSE IF SupportOk(sup[ops[i]]) THEN IterAll(sup, ops, i + 1)
    ELSE FALSE

\* The vector Profile::new moves into the Profile (mutant: it drops repeats).
RECURSIVE Dedup(_)
Dedup(ops) ==
    IF ops = <<>> THEN <<>>
    ELSE LET rest == Dedup(Tail(ops))
         IN IF \E i \in 1..Len(rest) : rest[i] = Head(ops) THEN rest ELSE <<Head(ops)>> \o rest

StoredOperationsDedup(ops) == Dedup(ops)

StoredOperations(ops) == ops

\* Profile::new
ProfileNewResult(sup, ops) ==
    IF IterAll(sup, ops, 1)
    THEN [tag |-> "Ok", allowed_operations |-> StoredOperations(ops)]
    ELSE [tag |-> "Err", allowed_operations |-> <<>>]

OpLists == UNION {[1..n -> Operation] : n \in 0..MaxOps}

NoProfile == [tag |-> "None", allowed_operations |-> <<>>]
NoSlice == <<"None">>

InitProfile ==
    /\ support \in [Operation -> OperationSupportLevel]
    /\ arg = <<>>
    /\ profile = NoProfile
    /\ slice = NoSlice
    /\ calls = 0

IdleProfile ==
    /\ support = [o \in Operation |-> "CanBeAllowed"]
    /\ arg = <<>>
    /\ profile = NoProfile
    /\ slice = NoSlice
    /\ calls = 0

ProfileNew ==
    /\ profile.tag = "None"
    /\ \E ops \in OpLists :
        /\ arg' = ops
        /\ profile' = ProfileNewResult(support, ops)
    /\ UNCHANGED <<support, slice, calls>>
    /\ UNCHANGED <<spawnVars, waitVars, exitVars>>

\* Profile::allowed_operations on the profile an Ok result holds
AllowedOperations ==
    /\ profile.tag = "Ok"
    /\ calls < MaxCalls
    /\ slice' = profile.allowed_operations
    /\ calls' = calls + 1
    /\ UNCHANGED <<support, arg, profile>>
    /\ UNCHANGED <<spawnVars, waitVars, exitVars>>

NextProfile == ProfileNew \/ AllowedOperations

-----------------------------------------------------------------------------
(***************************************************************************)
(* process.rs: descriptor tables and the libc calls spawn makes            *)
(***************************************************************************)

STDIN_FILENO == 0
STDOUT_FILENO == 1
STDERR_FILENO == 2

Fds == 0..(NumFds - 1)

\* What a descriptor table slot refers to.
Closed == [pipe |-> 0, end |-> "closed"]
Inherited == [pipe |-> 0, end |-> "file"]
PipeEnd(p, e) == [pipe |-> p, end |-> e]

OpenFds(t) == {f \in Fds : t[f] # Closed}
FreeFds(t) == Fds \ OpenFds(t)
Lowest(S) == CHOOSE f \in S : \A g \in S : f <= g

\* let mut fdN = [0 as c_int; 2]: fdN[0] is the pipe's read end, fdN[1] its write end.
ReadEnd(fd) == fd[1]
WriteEnd(fd) == fd[2]

\* libc::pipe: the two lowest free descriptors, or -1 with errno set.
\* EMFILE when the table has no two free slots, ENFILE whenever the system says so.
PipeOutcomes(t, id) ==
    LET free == FreeFds(t)
        r == Lowest(free)
        w == Lowest(free \ {r})
    IN  (IF Cardinality(free) >= 2
         THEN {[rc |-> 0, fds |-> <<r, w>>, errno |-> "none",
                table |-> [t EXCEPT ![r] = PipeEnd(id, "r"), ![w] = PipeEnd(id, "w")]]}
         ELSE {[rc |-> -1, fds |-> <<0, 0>>, errno |-> "EMFILE", table |-> t]})
        \cup {[rc |-> -1, fds |-> <<0, 0>>, errno |-> "ENFILE", table |-> t]}

\* libc::close: the slot is freed; a descriptor that is not open is EBADF (ignored by spawn).
Close(t, f) == IF f \in Fds THEN [t EXCEPT ![f] = Closed] ELSE t

\* libc::dup2(old, new): -1 when old is not open; new when old = new (nothing
\* changes); otherwise new refers to what old refers to. The call may also fail
\* for a reason of the system's (EINTR, EBUSY).
Dup2Outcomes(t, old, new) ==
    IF old \notin Fds \/ t[old] = Closed
    THEN {[rc |-> -1, table |-> t]}
    ELSE {[rc |-> new, table |-> [t EXCEPT ![new] = t[old]]], [rc |-> -1, table |-> t]}

(***************************************************************************)
(* Command.env and the encoding exec gives it                              *)
(***************************************************************************)

\* str::from_utf8 succeeds: the bytes are well-formed UTF-8 (1- to 4-byte forms).
IsCont(b) == b >= 128 /\ b <= 191
RECURSIVE Utf8Valid(_)
Utf8Valid(bytes) ==
    IF bytes = <<>> THEN TRUE
    ELSE LET b == Head(bytes)
             n == IF b < 128 THEN 1
                  ELSE IF b >= 194 /\ b <= 223 THEN 2
                  ELSE IF b >= 224 /\ b <= 239 THEN 3
                  ELSE IF b >= 240 /\ b <= 244 THEN 4
                  ELSE 0
         IN  /\ n > 0
             /\ Len(bytes) >= n
             /\ \A i \in 2..n : IsCont(bytes[i])
             /\ Utf8Valid(SubSeq(bytes, n + 1, Len(bytes)))

\* The env closure of exec: both unwraps of str::from_utf8 pass for every pair.
EnvEncodes(env) == \A i \in 1..Len(env) : Utf8Valid(env[i][1]) /\ Utf8Valid(env[i][2])

\* "FOO", "bar", "é", and two byte strings that are not UTF-8
FOO == <<70, 79, 79>>
bar == <<98, 97, 114>>
eacute == <<195, 169>>
badFF == <<255>>
badCut == <<195>>

Commands ==
    {[env |-> e] : e \in {<<<<FOO, bar>>>>, <<<<FOO, badFF>>>>,
                          <<<<FOO, eacute>>, <<badCut, bar>>>>}}

(***************************************************************************)
(* process.rs: spawn                                                       *)
(***************************************************************************)

Spawns == 1..MaxSpawns
PipeId(s, k) == 3 * (s - 1) + k

\* A child process: its position in the child arm, its descriptor table, its
\* copies of spawn's locals, what became of its execve call, whether
\* Activate::activate has been called in it, and the libc calls of the arm it
\* has made so far with their outcomes.
NoChild ==
    [pc |-> "none", fds |-> [f \in Fds |-> Closed],
     fd1 |-> <<0, 0>>, fd2 |-> <<0, 0>>, fd3 |-> <<0, 0>>, execve |-> "notcalled",
     activated |-> FALSE, done |-> <<>>]

Err(e) == [tag |-> "Err", errno |-> e, pid |-> 0, stdin |-> -1, stdout |-> -1, stderr |-> -1]
OkProcess(pid, in, out, err) ==
    [tag |-> "Ok", errno |-> "none", pid |-> pid, stdin |-> in, stdout |-> out, stderr |-> err]

\* The Process spawn builds in the parent arm.
ProcessOf(pid, a, b, c) == OkProcess(pid, WriteEnd(a), ReadEnd(b), ReadEnd(c))

\* The three descriptors the parent arm closes, in order.
ParentClosesTwo(a, b, c) == <<ReadEnd(a), WriteEnd(b), WriteEnd(b)>>

ParentCloses(a, b, c) == <<ReadEnd(a), WriteEnd(b), WriteEnd(c)>>

\* The three descriptors the child arm closes first, in order.
ChildCloses(a, b, c) == <<WriteEnd(a), ReadEnd(b), ReadEnd(c)>>

\* The parent starts with each of 0, 1, 2 open or closed and nothing else open.
InitSpawn ==
    /\ command \in Commands
    /\ \E open \in SUBSET {STDIN_FILENO, STDOUT_FILENO, STDERR_FILENO} :
        pfd = [f \in Fds |-> IF f \in open THEN Inherited ELSE Closed]
    /\ pc = "idle"
    /\ fd1 = <<0, 0>> /\ fd2 = <<0, 0>> /\ fd3 = <<0, 0>>
    /\ before = pfd
    /\ errno = "none"
    /\ forkret = 0
    /\ nspawn = 0
    /\ ret = <<>>
    /\ child = [s \in Spawns |-> NoChild]

IdleSpawn ==
    /\ command = [env |-> <<>>]
    /\ pfd = [f \in Fds |-> Closed]
    /\ pc = "idle"
    /\ fd1 = <<0, 0>> /\ fd2 = <<0, 0>> /\ fd3 = <<0, 0>>
    /\ before = pfd
    /\ errno = "none"
    /\ forkret = 0
    /\ nspawn = 0
    /\ ret = <<>>
    /\ child = [s \in Spawns |-> NoChild]

Others == <<profileVars, waitVars, exitVars>>

\* spawn is entered: lines 57-59
SpawnCall ==
    /\ pc = "idle"
    /\ nspawn < MaxSpawns
    /\ nspawn' = nspawn + 1
    /\ fd1' = <<0, 0>> /\ fd2' = <<0, 0>> /\ fd3' = <<0, 0>>
    /\ before' = pfd
    /\ forkret' = 0
    /\ pc' = "pipe1"
    /\ UNCHANGED <<command, pfd, errno, ret, child>>
    /\ UNCHANGED Others

\* if pipe(&mut fd1[0]) < 0 { return Err(last_os_error()) }
Pipe1 ==
    /\ pc = "pipe1"
    /\ \E r \in PipeOutcomes(pfd, PipeId(nspawn, 1)) :
        /\ pfd' = r.table
        /\ IF r.rc < 0
           THEN errno' = r.errno /\ ret' = Append(ret, Err(r.errno)) /\ pc' = "idle"
                /\ UNCHANGED fd1
           ELSE fd1' = r.fds /\ pc' = "pipe2" /\ UNCHANGED <<errno, ret>>
    /\ UNCHANGED <<command, fd2, fd3, before, forkret, nspawn, child>>
    /\ UNCHANGED Others

Pipe2 ==
    /\ pc = "pipe2"
    /\ \E r \in PipeOutcomes(pfd, PipeId(nspawn, 2)) :
        /\ pfd' = r.table
        /\ IF r.rc < 0
           THEN errno' = r.errno /\ ret' = Append(ret, Err(r.errno)) /\ pc' = "idle"
                /\ UNCHANGED fd2
           ELSE fd2' = r.fds /\ pc' = "pipe3" /\ UNCHANGED <<errno, ret>>
    /\ UNCHANGED <<command, fd1, fd3, before, forkret, nspawn, child>>
    /\ UNCHANGED Others

Pipe3 ==
    /\ pc = "pipe3"
    /\ \E r \in PipeOutcomes(pfd, PipeId(nspawn, 3)) :
        /\ pfd' = r.table
        /\ IF r.rc < 0
           THEN errno' = r.errno /\ ret' = Append(ret, Err(r.errno)) /\ pc' = "idle"
                /\ UNCHANGED fd3
           ELSE fd3' = r.fds /\ pc' = "fork" /\ UNCHANGED <<errno, ret>>
    /\ UNCHANGED <<command, fd1, fd2, before, forkret, nspawn, child>>
    /\ UNCHANGED Others

\* match fork(): the child (arm 0) starts as a copy of the parent; the parent
\* takes the arm `pid =>` with the child's pid.
ForkOk ==
    /\ pc = "fork"
    /\ forkret' = nspawn
    /\ child' = [child EXCEPT ![nspawn] =
                    [pc |-> "close1", fds |-> pfd, fd1 |-> fd1, fd2 |-> fd2, fd3 |-> fd3,
                     execve |-> "notcalled", activated |-> FALSE, done |-> <<>>]]
    /\ pc' = "pclose1"
    /\ UNCHANGED <<command, pfd, fd1, fd2, fd3, before, errno, nspawn, ret>>
    /\ UNCHANGED Others

\* fork fails: it returns -1 in the parent, which the arm `pid =>` matches too.
ForkFail ==
    /\ pc = "fork"
    /\ forkret' = -1
    /\ \E e \in {"EAGAIN", "ENOMEM"} : errno' = e
    /\ pc' = "pclose1"
    /\ UNCHANGED <<command, pfd, fd1, fd2, fd3, before, nspawn, ret, child>>
    /\ UNCHANGED Others

ParentCloseStep(at, k, next) ==
    /\ pc = at
    /\ pfd' = Close(pfd, ParentCloses(fd1, fd2, fd3)[k])
    /\ pc' = next
    /\ UNCHANGED <<command, fd1, fd2, fd3, before, errno, forkret, nspawn, ret, child>>
    /\ UNCHANGED Others

\* libc::close(fd1[0]); libc::close(fd2[1]); libc::close(fd3[1]);
ParentClose1 == ParentCloseStep("pclose1", 1, "pclose2")
ParentClose2 == ParentCloseStep("pclose2", 2, "pclose3")
ParentClose3 == ParentCloseStep("pclose3", 3, "preturn")

\* Ok(Process { pid, stdin, stdout, stderr })
ParentReturn ==
    /\ pc = "preturn"
    /\ ret' = Append(ret, ProcessOf(forkret, fd1, fd2, fd3))
    /\ pc' = "idle"
    /\ UNCHANGED <<command, pfd, fd1, fd2, fd3, before, errno, forkret, nspawn, child>>
    /\ UNCHANGED Others

ChildUnchanged == UNCHANGED <<command, pfd, pc, fd1, fd2, fd3, before, errno, forkret, nspawn, ret>>

ChildCloseStep(s, at, fd, next) ==
    /\ child[s].pc = at
    /\ child' = [child EXCEPT ![s].fds = Close(@, fd), ![s].pc = next,
                              ![s].done = Append(@, <<at, "ok">>)]
    /\ ChildUnchanged
    /\ UNCHANGED Others

\* assert_eq!(dup2(old, new), new): a failed assertion panics
AfterDup2(rc, new, next) == IF rc = new THEN next ELSE "panic"

ChildDup2Step(s, at, old, new, next) ==
    /\ child[s].pc = at
    /\ \E r \in Dup2Outcomes(child[s].fds, old, new) :
        child' = [child EXCEPT ![s].fds = r.table,
                               ![s].pc = AfterDup2(r.rc, new, next),
                               ![s].done = Append(@, <<at, IF r.rc = new THEN "ok" ELSE "failed">>)]
    /\ ChildUnchanged
    /\ UNCHANGED Others

\* libc::close(fd1[1]); libc::close(fd2[0]); libc::close(fd3[0]);
ChildClose1(s) ==
    ChildCloseStep(s, "close1", ChildCloses(child[s].fd1, child[s].fd2, child[s].fd3)[1], "close2")
ChildClose2(s) ==
    ChildCloseStep(s, "close2", ChildCloses(child[s].fd1, child[s].fd2, child[s].fd3)[2], "close3")
ChildClose3(s) ==
    ChildCloseStep(s, "close3", ChildCloses(child[s].fd1, child[s].fd2, child[s].fd3)[3], "dup2_stdin")

ChildDup2Stdin(s) ==
    ChildDup2Step(s, "dup2_stdin", ReadEnd(child[s].fd1), STDIN_FILENO, "close_fd1")
ChildCloseFd1(s) ==
    ChildCloseStep(s, "close_fd1", ReadEnd(child[s].fd1), "dup2_stdout")
ChildDup2Stdout(s) ==
    ChildDup2Step(s, "dup2_stdout", WriteEnd(child[s].fd2), STDOUT_FILENO, "close_fd2")
ChildCloseFd2(s) ==
    ChildCloseStep(s, "close_fd2", WriteEnd(child[s].fd2), "dup2_stderr")
ChildDup2Stderr(s) ==
    ChildDup2Step(s, "dup2_stderr", WriteEnd(child[s].fd3), STDERR_FILENO, "close_fd3")
ChildCloseFd3(s) ==
    ChildCloseStep(s, "close_fd3", WriteEnd(child[s].fd3), "exec")

\* Neither the child arm nor exec calls Activate::activate: no step of the
\* child sets `activated`.
\* drop(exec(command)): exec encodes the environment (an unwrap that fails
\* panics before execve is called), then calls execve, which either replaces
\* the program and never returns, or fails and returns; exec then returns
\* the io::Error, which is dropped, and panic!() is reached.
ChildExec(s) ==
    /\ child[s].pc = "exec"
    /\ IF ~EnvEncodes(command.env)
       THEN child' = [child EXCEPT ![s].pc = "panic"]
       ELSE \/ child' = [child EXCEPT ![s].pc = "execd", ![s].execve = "replaced"]
            \/ child' = [child EXCEPT ![s].pc = "panic", ![s].execve = "returned"]
    /\ ChildUnchanged
    /\ UNCHANGED Others

\* What a panic does to the forked child depends on the build and on the
\* caller: with panic=abort the process aborts; with panic=unwind the stack
\* unwinds out of spawn into the frames copied from the parent, where either
\* an enclosing catch_unwind (or thread boundary) catches it and the child
\* carries on in the caller's code, or nothing does and the process exits.
PanicOutcomes == {"aborted", "unwound_exit", "caught"}

ChildPanic(s) ==
    /\ child[s].pc = "panic"
    /\ \E o \in PanicOutcomes : child' = [child EXCEPT ![s].pc = o]
    /\ ChildUnchanged
    /\ UNCHANGED Others

NextSpawn ==
    \/ SpawnCall \/ Pipe1 \/ Pipe2 \/ Pipe3 \/ ForkOk \/ ForkFail
    \/ ParentClose1 \/ ParentClose2 \/ ParentClose3 \/ ParentReturn
    \/ \E s \in Spawns :
        \/ ChildClose1(s) \/ ChildClose2(s) \/ ChildClose3(s)
        \/ ChildDup2Stdin(s) \/ ChildCloseFd1(s)
        \/ ChildDup2Stdout(s) \/ ChildCloseFd2(s)
        \/ ChildDup2Stderr(s) \/ ChildCloseFd3(s)
        \/ ChildExec(s) \/ ChildPanic(s)

-----------------------------------------------------------------------------
(***************************************************************************)
(* process.rs: Process::wait and ExitStatus                                *)
(***************************************************************************)

\* enum ExitStatus
Code(n) == [variant |-> "Code", n |-> n]
Signal(n) == [variant |-> "Signal", n |-> n]

\* The wait status the kernel records for a terminated child: an exit code in
\* bits 8-15, or a signal number in bits 0-6 with the core-dump flag in bit 7.
ExitedStat(code) == (code % 256) * 256
SignaledStat(sig, core) == sig + (IF core THEN 128 ELSE 0)

\* libc's status macros
WIFEXITED(stat) == (stat % 128) = 0
WEXITSTATUS(stat) == (stat \div 256) % 256
WTERMSIG(stat) == stat % 128

\* The last block of wait: lines 127-133
DecodeSwapped(stat) ==
    IF WIFEXITED(stat) THEN Signal(WEXITSTATUS(stat)) ELSE Code(WTERMSIG(stat))

Decode(stat) ==
    IF WIFEXITED(stat) THEN Code(WEXITSTATUS(stat)) ELSE Signal(WTERMSIG(stat))

\* ExitStatus::success
successAnyCode(st) ==
    CASE st.variant = "Code" -> TRUE
      [] OTHER -> FALSE

success(st) ==
    CASE st.variant = "Code" /\ st.n = 0 -> TRUE
      [] OTHER -> FALSE

Pids == 1..NumKids
Threads == 1..NumThreads
ExitCodes == {0, 255}
\* SIGKILL, and SIGSEGV, whose default action also dumps core
KillSignals == {9, 11}
DumpsCore(sig) == sig = 11

NoResult == [tag |-> "None", value |-> Code(0), errno |-> "none"]
WaitOk(v) == [tag |-> "Ok", value |-> v, errno |-> "none"]
WaitErr(e) == [tag |-> "Err", value |-> Code(0), errno |-> e]

\* A thread's wait frame: self.pid, the local stat (while the call runs), and
\* what the thread's last wait call returned.
IdleWaiter == [pc |-> "idle", self |-> 0, stat |-> 0, result |-> NoResult]

\* The kernel's record of a child: running, zombie (terminated, status word
\* stat waiting to be collected) or reaped; how it terminated; and, once
\* reaped, the pid tracked by the wait call whose waitpid collected it.
\* Every child has been spawned and runs; no thread is inside wait.
InitWait ==
    /\ kids = [p \in Pids |->
                [state |-> "running", stat |-> 0, how |-> "none", n |-> 0, taker |-> 0]]
    /\ waiter = [t \in Threads |-> IdleWaiter]
    /\ nwait = 0

IdleWait == InitWait

\* One child is outstanding and no wait has been called on it: the parent's
\* other children have exited and been reaped through their own Processes.
InitWaitOne ==
    /\ \E p \in Pids :
        kids = [q \in Pids |->
                  IF q = p
                  THEN [state |-> "running", stat |-> 0, how |-> "none", n |-> 0, taker |-> 0]
                  ELSE [state |-> "reaped", stat |-> ExitedStat(0), how |-> "exit", n |-> 0,
                        taker |-> q]]
    /\ waiter = [t \in Threads |-> IdleWaiter]
    /\ nwait = 0

NotWait == <<profileVars, spawnVars, exitVars>>

\* The child's program calls exit(code).
KidExits(p) ==
    /\ kids[p].state = "running"
    /\ \E code \in ExitCodes :
        kids' = [kids EXCEPT ![p] =
                    [state |-> "zombie", stat |-> ExitedStat(code), how |-> "exit", n |-> code,
                     taker |-> 0]]
    /\ UNCHANGED <<waiter, nwait>>
    /\ UNCHANGED NotWait

\* The child is terminated by a signal.
KidKilled(p) ==
    /\ kids[p].state = "running"
    /\ \E sig \in KillSignals :
        kids' = [kids EXCEPT ![p] =
                    [state |-> "zombie", stat |-> SignaledStat(sig, DumpsCore(sig)),
                     how |-> "signal", n |-> sig, taker |-> 0]]
    /\ UNCHANGED <<waiter, nwait>>
    /\ UNCHANGED NotWait

\* A thread calls wait on the Process whose pid is p: let mut stat = 0
WaitCall(t, p) ==
    /\ waiter[t].pc = "idle"
    /\ nwait < MaxWaits
    /\ nwait' = nwait + 1
    /\ waiter' = [waiter EXCEPT ![t] = [pc |-> "loop", self |-> p, stat |-> 0, result |-> NoResult]]
    /\ UNCHANGED kids
    /\ UNCHANGED NotWait

\* if pid == self.pid { break }
IsTrackedAny(pid, self) == pid > 0

IsTrackedNever(pid, self) == FALSE

IsTracked(pid, self) == pid = self

\* waitpid(-1, .., 0) collects a zombie: its record is released (mutant: the
\* child stays waitable, as with WNOWAIT).
ReapedStaysWaitable(k, self) == k

Reaped(k, self) == [k EXCEPT !.state = "reaped", !.taker = self]

\* if pid < 0 { return Err(io::Error::last_os_error()) } (mutant: EINTR is
\* noted and the loop goes round again).
AfterFailureRetry(w, e) ==
    IF e = "EINTR" THEN [w EXCEPT !.result = WaitErr(e)]
    ELSE [w EXCEPT !.pc = "idle", !.stat = 0, !.result = WaitErr(e)]

AfterFailure(w, e) == [w EXCEPT !.pc = "idle", !.stat = 0, !.result = WaitErr(e)]

\* One turn of the loop in which waitpid(-1, &mut stat, 0) reaps a terminated
\* child z (any one the kernel picks): the loop breaks and the status is
\* decoded if z is the tracked pid, and goes round again otherwise.
WaitpidReaps(t) ==
    /\ waiter[t].pc = "loop"
    /\ \E z \in Pids :
        /\ kids[z].state = "zombie"
        /\ kids' = [kids EXCEPT ![z] = Reaped(@, waiter[t].self)]
        /\ waiter' = [waiter EXCEPT ![t] =
                        IF IsTracked(z, waiter[t].self)
                        THEN [@ EXCEPT !.pc = "idle", !.stat = 0,
                                       !.result = WaitOk(Decode(kids[z].stat))]
                        ELSE [@ EXCEPT !.stat = kids[z].stat]]
    /\ UNCHANGED nwait
    /\ UNCHANGED NotWait

\* waitpid fails with ECHILD: the parent has no child left to wait for.
WaitpidNoChild(t) ==
    /\ waiter[t].pc = "loop"
    /\ \A z \in Pids : kids[z].state = "reaped"
    /\ waiter' = [waiter EXCEPT ![t] = AfterFailure(@, "ECHILD")]
    /\ UNCHANGED <<kids, nwait>>
    /\ UNCHANGED NotWait

\* waitpid is interrupted by a signal handler while it blocks: EINTR.
WaitpidInterrupted(t) ==
    /\ waiter[t].pc = "loop"
    /\ \E z \in Pids : kids[z].state # "reaped"
    /\ \A z \in Pids : kids[z].state # "zombie"
    /\ waiter' = [waiter EXCEPT ![t] = AfterFailure(@, "EINTR")]
    /\ UNCHANGED <<kids, nwait>>
    /\ UNCHANGED NotWait

NextWait ==
    \/ \E p \in Pids : KidExits(p) \/ KidKilled(p)
    \/ \E t \in Threads, p \in Pids : WaitCall(t, p)
    \/ \E t \in Threads : WaitpidReaps(t) \/ WaitpidNoChild(t) \/ WaitpidInterrupted(t)

(***************************************************************************)
(* ExitStatus::success applied to an arbitrary ExitStatus value            *)
(***************************************************************************)

Payloads == (-MaxStatus)..MaxStatus
ExitStatuses == {Code(n) : n \in Payloads} \cup {Signal(n) : n \in Payloads}

InitExit ==
    /\ status \in ExitStatuses
    /\ succ = <<>>

IdleExit ==
    /\ status = Code(0)
    /\ succ = <<>>

CallSuccess ==
    /\ succ = <<>>
    /\ succ' = <<success(status)>>
    /\ UNCHANGED status
    /\ UNCHANGED <<profileVars, spawnVars, waitVars>>

NextExit == CallSuccess

-----------------------------------------------------------------------------
(* Specifications *)

StartProfile == InitProfile /\ IdleSpawn /\ IdleWait /\ IdleExit
StartSpawn == IdleProfile /\ InitSpawn /\ IdleWait /\ IdleExit
StartWait == IdleProfile /\ IdleSpawn /\ InitWait /\ IdleExit
StartWaitOne == IdleProfile /\ IdleSpawn /\ InitWaitOne /\ IdleExit
StartExit == IdleProfile /\ IdleSpawn /\ IdleWait /\ InitExit

SpecProfile == StartProfile /\ [][NextProfile]_vars
SpecSpawn == StartSpawn /\ [][NextSpawn]_vars
SpecWait == StartWait /\ [][NextWait]_vars
SpecExitStatus == StartExit /\ [][NextExit]_vars

\* The wait machine started with a single outstanding child, under the
\* scheduling the system provides: the child's program terminates, and a
\* waitpid that can return (a zombie to collect, or no child left) does.
SpecWaitFair ==
    /\ StartWaitOne /\ [][NextWait]_vars
    /\ \A p \in Pids : WF_vars(KidExits(p) \/ KidKilled(p))
    /\ \A t \in Threads : WF_vars(WaitpidReaps(t)) /\ WF_vars(WaitpidNoChild(t))

-----------------------------------------------------------------------------
(***************************************************************************)
(* Properties                                                              *)
(***************************************************************************)

Acceptable == {"NeverAllowed", "CanBeAllowed"}

\* C1: Profile::new(ops) returns Ok iff every operation of ops has support
\* level NeverAllowed or CanBeAllowed; otherwise it returns Err, which holds
\* no profile, wherever in the list the unacceptable operation stands.
C1_NewOkIffAllAcceptable ==
    profile.tag # "None" =>
        /\ profile.tag \in {"Ok", "Err"}
        /\ (profile.tag = "Ok") <=> (\A i \in 1..Len(arg) : support[arg[i]] \in Acceptable)
        /\ profile.tag = "Err" => profile.allowed_operations = <<>>

\* A list of three whose only unacceptable operation is the last was rejected.
C1_Witness ==
    /\ profile.tag = "Err"
    /\ Len(arg) = 3
    /\ support[arg[1]] \in Acceptable /\ support[arg[2]] \in Acceptable
    /\ support[arg[3]] = "AlwaysAllowed"

\* C2: when Profile::new(ops) succeeds the profile holds exactly ops (same
\* operations, length and order), and every allowed_operations() call
\* returns that list.
C2_AllowedOperationsIsInput ==
    profile.tag = "Ok" =>
        /\ profile.allowed_operations = arg
        /\ calls > 0 => slice = arg

\* allowed_operations() was called twice on a profile built from an unsorted
\* list with a repeated operation.
C2_Witness ==
    /\ profile.tag = "Ok"
    /\ calls = 2
    /\ slice = <<"SystemInfoRead", "FileReadAll", "SystemInfoRead">>

\* C3: a spawn whose fork failed returns Err, and every Ok(Process) holds the
\* pid (> 0) of a child that the call created.
C3_OkOnlyWithRealChild ==
    \A i \in 1..Len(ret) :
        ret[i].tag = "Ok" => ret[i].pid > 0 /\ child[i].pc # "none"

\* C4: after a spawn call that returned Err the parent's open descriptors are
\* those it had open when the call was made.
C4_FailedSpawnLeaksNothing ==
    (pc = "idle" /\ nspawn > 0 /\ ret[nspawn].tag = "Err")
        => OpenFds(pfd) = OpenFds(before)

\* C5: when spawn returns Ok the parent has exactly three more open
\* descriptors than when spawn was called: the Process's stdin, stdout and
\* stderr, which are the write end of pipe 1 and the read ends of pipes 2
\* and 3; no descriptor of the parent refers to a child-side end.
C5_ThreeMoreDescriptors ==
    (pc = "idle" /\ nspawn > 0 /\ ret[nspawn].tag = "Ok") =>
        LET p == ret[nspawn]
            mine == {PipeEnd(PipeId(nspawn, 1), "r"), PipeEnd(PipeId(nspawn, 2), "w"),
                     PipeEnd(PipeId(nspawn, 3), "w")}
        IN  /\ Cardinality(OpenFds(pfd)) = Cardinality(OpenFds(before)) + 3
            /\ OpenFds(pfd) = OpenFds(before) \cup {p.stdin, p.stdout, p.stderr}
            /\ pfd[p.stdin] = PipeEnd(PipeId(nspawn, 1), "w")
            /\ pfd[p.stdout] = PipeEnd(PipeId(nspawn, 2), "r")
            /\ pfd[p.stderr] = PipeEnd(PipeId(nspawn, 3), "r")
            /\ \A f \in Fds : pfd[f] \notin mine

\* The second spawn returned Ok while the first Process is still held, and
\* its child's program failed to start.
C5_Witness ==
    /\ pc = "idle" /\ nspawn = 2
    /\ ret[1].tag = "Ok" /\ ret[2].tag = "Ok" /\ ret[2].pid > 0
    /\ child[2].pc = "aborted"

\* C6: when a child reaches program replacement its descriptors 0, 1, 2 are
\* the read end of pipe 1 and the write ends of pipes 2 and 3 of its spawn.
C6_ChildStreamsWired ==
    \A s \in Spawns :
        child[s].pc \in {"exec", "execd"} =>
            /\ child[s].fds[STDIN_FILENO] = PipeEnd(PipeId(s, 1), "r")
            /\ child[s].fds[STDOUT_FILENO] = PipeEnd(PipeId(s, 2), "w")
            /\ child[s].fds[STDERR_FILENO] = PipeEnd(PipeId(s, 3), "w")

\* C7: a child in which execve returned never runs on in the code of
\* spawn's caller.
C7_ChildNeverContinues ==
    \A s \in Spawns : child[s].execve = "returned" => child[s].pc # "caught"

\* C8: with an environment that cannot be decoded as text no child is ever
\* created and no spawn call returns Ok.
C8_BadEnvNoFork ==
    ~EnvEncodes(command.env) =>
        /\ \A s \in Spawns : child[s].pc = "none"
        /\ \A i \in 1..Len(ret) : ret[i].tag = "Err"

\* C11: a child whose program was replaced (the target program runs) had
\* activate() called in it, after the rewiring and before execve.
C11_ActivatedBeforeExec ==
    \A s \in Spawns : child[s].execve = "replaced" => child[s].activated

\* The nine libc calls of the child arm before exec, all successful.
Rewiring ==
    <<<<"close1", "ok">>, <<"close2", "ok">>, <<"close3", "ok">>,
      <<"dup2_stdin", "ok">>, <<"close_fd1", "ok">>,
      <<"dup2_stdout", "ok">>, <<"close_fd2", "ok">>,
      <<"dup2_stderr", "ok">>, <<"close_fd3", "ok">>>>

Dup2Failed(s) == \E i \in 1..Len(child[s].done) : child[s].done[i][2] = "failed"

ChildSideEnds(s) ==
    {PipeEnd(PipeId(s, 1), "r"), PipeEnd(PipeId(s, 2), "w"), PipeEnd(PipeId(s, 3), "w")}

\* C16: execve is called in a child only after its nine rewiring calls have
\* all completed; the parent returns a Process only with the three child-side
\* ends closed; a child whose dup2 failed is terminated and never calls execve.
C16_RewiringBeforeExec ==
    /\ \A s \in Spawns :
        /\ child[s].execve # "notcalled" => child[s].done = Rewiring
        /\ Dup2Failed(s) =>
            /\ child[s].execve = "notcalled"
            /\ child[s].pc \in {"panic", "aborted", "unwound_exit"}
    /\ \A i \in 1..Len(ret) :
        (ret[i].tag = "Ok" /\ (i < nspawn \/ pc = "idle")) =>
            \A f \in Fds : pfd[f] \notin ChildSideEnds(i)

PipesOf(s) == {PipeId(s, 1), PipeId(s, 2), PipeId(s, 3)}
ProcessFds(p) == {p.stdin, p.stdout, p.stderr}

\* C17: when every spawn call so far has succeeded (Ok, with a child), the
\* Processes own pairwise disjoint descriptors, and no child has an open
\* descriptor for an end of a pipe of an earlier-spawned Process.
AllSpawnsSucceeded == \A i \in 1..Len(ret) : ret[i].tag = "Ok" /\ ret[i].pid > 0

C17_PipesPrivate ==
    AllSpawnsSucceeded =>
        /\ \A i, j \in 1..Len(ret) :
            i # j => ProcessFds(ret[i]) \cap ProcessFds(ret[j]) = {}
        /\ \A s \in Spawns, o \in 1..Len(ret) :
            (o < s /\ child[s].pc # "none")
                => \A f \in Fds : child[s].fds[f].pipe \notin PipesOf(o)

\* C9: when wait returns Ok the tracked child has been reaped and the value
\* is Code(N) if it exited with code N (0 <= N <= 255) and Signal(S) if
\* signal S terminated it.
C9_WaitDecodesTermination ==
    \A t \in Threads :
        waiter[t].result.tag = "Ok" =>
            LET k == kids[waiter[t].self]
                v == waiter[t].result.value
            IN  /\ k.state = "reaped"
                /\ k.how \in {"exit", "signal"}
                /\ k.how = "exit" => v = Code(k.n) /\ k.n \in 0..255
                /\ k.how = "signal" => v = Signal(k.n)

\* One wait returned Signal(11) for a child that dumped core and another
\* wait returned Code(255).
C9_Witness ==
    \E t, u \in Threads :
        /\ waiter[t].result = WaitOk(Signal(11))
        /\ kids[waiter[t].self].stat = SignaledStat(11, TRUE)
        /\ waiter[u].result = WaitOk(Code(255))

\* A waiter in the loop whose tracked child was collected by a wait call that
\* tracks another pid.
Starved(u) ==
    /\ waiter[u].pc = "loop"
    /\ kids[waiter[u].self].state = "reaped"
    /\ kids[waiter[u].self].taker # waiter[u].self

\* C12: once another Process's wait call has consumed and discarded the
\* notification of a waiter's child, that waiter never returns Ok: it stays
\* in the loop or returns Err.
C12_StarvedNeverOk ==
    [][\A u \in Threads :
        Starved(u) => (Starved(u)' \/ waiter'[u].result.tag = "Err")]_vars

\* Two threads wait at the same time on different Processes, and the one
\* whose child still runs has consumed the notification of the other's child.
C12_Witness ==
    \E t, u \in Threads :
        /\ t # u /\ nwait = 2
        /\ waiter[t].pc = "loop" /\ waiter[u].pc = "loop"
        /\ waiter[t].self # waiter[u].self
        /\ kids[waiter[t].self].state = "running"
        /\ kids[waiter[u].self].state = "reaped"
        /\ kids[waiter[u].self].taker = waiter[t].self

C14_OnlyTrackedPidDecoded ==
    [][\A t \in Threads : waiter[t].pc = "loop" =>
        LET self == waiter[t].self
        IN  /\ waiter'[t].result.tag = "Ok" =>
                /\ kids[self].state = "zombie"
                /\ kids'[self].taker = self
                /\ waiter'[t].result.value = Decode(kids[self].stat)
            /\ \A z \in Pids \ {self} :
                (kids[z].state = "zombie" /\ kids'[z].state = "reaped") =>
                    waiter'[t].pc = "loop" /\ waiter'[t].result = NoResult]_vars

\* A wait returned Ok after its call had discarded another child's
\* notification, whose status differs from the tracked child's.
C14_Witness ==
    \E t \in Threads, z \in Pids :
        /\ waiter[t].result.tag = "Ok"
        /\ z # waiter[t].self
        /\ kids[z].state = "reaped" /\ kids[z].taker = waiter[t].self
        /\ kids[z].stat # kids[waiter[t].self].stat
        /\ nwait = 1

\* C15: a wait call in which waitpid failed has returned Err with that
\* error (ECHILD or EINTR), and the failing step collects no child.
C15_NoRetryAfterFailure ==
    /\ [](\A t \in Threads : waiter[t].result.tag = "Err" =>
            waiter[t].pc = "idle" /\ waiter[t].result.errno \in {"ECHILD", "EINTR"})
    /\ [][\A t \in Threads :
            (waiter[t].result.tag # "Err" /\ waiter'[t].result.tag = "Err") =>
                waiter[t].pc = "loop" /\ kids' = kids]_vars

\* A wait returned Err(EINTR) while its tracked child was still running.
C15_Witness ==
    \E t \in Threads :
        /\ waiter[t].result = WaitErr("EINTR")
        /\ kids[waiter[t].self].state = "running"

\* Thread t waits on the Process of p, p is the parent's only outstanding
\* child, and no other thread is inside wait.
OnlyChildWaited(t, p) ==
    /\ waiter[t].pc = "loop" /\ waiter[t].self = p
    /\ kids[p].state # "reaped"
    /\ \A q \in Pids \ {p} : kids[q].state = "reaped"
    /\ \A u \in Threads \ {t} : waiter[u].pc = "idle"

OtherWaits(t) == \E u \in Threads \ {t} : waiter[u].pc = "loop"

ReturnedOk(t, p) ==
    /\ waiter[t].pc = "idle" /\ waiter[t].self = p
    /\ kids[p].state = "reaped"
    /\ waiter[t].result = WaitOk(Decode(kids[p].stat))

\* C18 as stated: with one outstanding child, which terminates, and no other
\* thread waiting, wait eventually returns Ok with the child's status.
\* It does not block forever and does not return an error.
C18_OnlyChildWaitReturnsOk ==
    /\ \A t \in Threads, p \in Pids :
        OnlyChildWaited(t, p) ~> (ReturnedOk(t, p) \/ OtherWaits(t))
    /\ [][\A t \in Threads, p \in Pids :
            OnlyChildWaited(t, p) => waiter'[t].result.tag # "Err"]_vars

\* C18 as amended: in that situation wait eventually returns, either Ok with
\* the child's status or Err(EINTR) when waitpid was interrupted while the
\* child still ran.
C18_OnlyChildWaitReturns ==
    \A t \in Threads, p \in Pids :
        OnlyChildWaited(t, p) ~>
            \/ ReturnedOk(t, p)
            \/ (waiter[t].pc = "idle" /\ waiter[t].self = p
                    /\ waiter[t].result = WaitErr("EINTR"))
            \/ OtherWaits(t)

\* The first wait on the only outstanding child, which a signal killed,
\* returned Ok while no other thread had called wait.
C18_Witness ==
    \E t \in Threads, p \in Pids :
        /\ ReturnedOk(t, p) /\ kids[p].how = "signal"
        /\ nwait = 1
        /\ \A u \in Threads \ {t} : waiter[u] = IdleWaiter

\* C19: a child whose notification was consumed by a wait call tracking
\* another pid is lost: no wait on its Process holds Ok.
C19_DiscardedIsLost ==
    \A p \in Pids :
        (kids[p].state = "reaped" /\ kids[p].taker # p) =>
            \A t \in Threads : waiter[t].self = p => waiter[t].result.tag # "Ok"

\* One thread alone made two calls: its wait on A discarded B's notification
\* and returned, and its later wait on B returned Err(ECHILD).
C19_Witness ==
    \E t \in Threads, a, b \in Pids :
        /\ a # b /\ nwait = 2
        /\ \A u \in Threads \ {t} : waiter[u] = IdleWaiter
        /\ kids[a].state = "reaped" /\ kids[a].taker = a
        /\ kids[b].state = "reaped" /\ kids[b].taker = a
        /\ waiter[t].self = b /\ waiter[t].result = WaitErr("ECHILD")

\* C10: success() is true iff the value is Code(0).
C10_SuccessIffCodeZero ==
    succ # <<>> => (succ[1] <=> status = Code(0))

\* success() was asked of Signal(0) and said false.
C10_Witness == succ = <<FALSE>> /\ status = Signal(0)

====
